---- MODULE Spec2Model ----
(***************************************************************************)
(* Model of the game price search of mainprogram/app.py: the store tables  *)
(* read by search_games, the request handler index, and the pure helpers   *)
(* they call; and of the ingestion run of mainprogram/main.py that writes  *)
(* those tables.                                                           *)
(*                                                                         *)
(* Text is a sequence of one-character strings, so that strip, split,      *)
(* lower, LIKE and the ordering of strings are computed, not assumed.      *)
(* An Optional value is the empty sequence (None / SQL NULL) or a          *)
(* one-element sequence.  A price is a count of hundredths of the native   *)
(* currency unit (9.99 is 999); a rate is a count of hundredths (30.0 is   *)
(* 3000).  The stored values are those the schema of main.py and its       *)
(* writers give: a title is a text, IsFree is 0 or 1, a price is NULL or a *)
(* number (so float(final_price) always succeeds), a RegionCode is a text. *)
(***************************************************************************)
EXTENDS Integers, Sequences, FiniteSets, TLC

VARIABLES
  Game,           \* table Game: GameID -> [MainTitle, IsFree]
  PriceRecord,    \* table PriceRecord: row PriceRecordID i is PriceRecord[i]
  Tag,            \* table Tag: TagID -> TagName
  GameTag,        \* table GameTag: the set of <<GameID, TagID>>
  pc,             \* index: "idle" before a request, "rendered" once it has built its response
  results,        \* index: the results handed to the template
  error_message,  \* index: the local error_message, an Optional text
  form,           \* index: the local form_values
  searched,       \* index: the searched flag handed to the template
  main_pc,        \* main: "off" when no run is under way, else its position
  app_ids,        \* main: the app ids the outer loop has still to take
  app_id,         \* main: the app id of the current outer iteration (0: none)
  ccs,            \* main: the region codes the inner loop has still to take
  first_ok_data,  \* main: the local first_ok_data, an Optional metadata
  fetched         \* what fetch_from_steam returned so far: app id -> the results in call order

vars ==
  <<Game, PriceRecord, Tag, GameTag, pc, results, error_message, form, searched,
    main_pc, app_ids, app_id, ccs, first_ok_data, fetched>>

store == <<Game, PriceRecord, Tag, GameTag>>

\* The locals of index and what it hands to the template.
request == <<pc, results, error_message, form, searched>>

\* The position and locals of main.
run == <<main_pc, app_ids, app_id, ccs, first_ok_data, fetched>>

---------------------------------------------------------------------------
(* Optional values *)

None == <<>>

Some(x) == <<x>>

IsNone(o) == Len(o) = 0

Val(o) == o[1]

---------------------------------------------------------------------------
(* Text *)

UpperCase ==
  <<"A", "B", "C", "D", "E", "F", "G", "H", "I", "J", "K", "L", "M",
    "N", "O", "P", "Q", "R", "S", "T", "U", "V", "W", "X", "Y", "Z">>

LowerCase ==
  <<"a", "b", "c", "d", "e", "f", "g", "h", "i", "j", "k", "l", "m",
    "n", "o", "p", "q", "r", "s", "t", "u", "v", "w", "x", "y", "z">>

DigitChars == <<"0", "1", "2", "3", "4", "5", "6", "7", "8", "9">>

\* The full-width comma U+FF0C, one character.
FullWidthComma == "U+FF0C"

\* The characters of the model with their code points (Python compares str by
\* code point).
OrdTable ==
  [c \in {UpperCase[i] : i \in 1..26} |-> 64 + (CHOOSE i \in 1..26 : UpperCase[i] = c)]
  @@ [c \in {LowerCase[i] : i \in 1..26} |-> 96 + (CHOOSE i \in 1..26 : LowerCase[i] = c)]
  @@ [c \in {DigitChars[i] : i \in 1..10} |-> 47 + (CHOOSE i \in 1..10 : DigitChars[i] = c)]
  @@ (" " :> 32) @@ ("(" :> 40) @@ (")" :> 41) @@ ("+" :> 43) @@ ("," :> 44)
  @@ ("-" :> 45) @@ ("~" :> 126) @@ (FullWidthComma :> 65292)

Ord(c) == OrdTable[c]

LowerTable ==
  [c \in DOMAIN OrdTable |->
     IF \E i \in 1..26 : UpperCase[i] = c
     THEN LowerCase[CHOOSE i \in 1..26 : UpperCase[i] = c]
     ELSE c]

\* str.lower() of one character.
LowerChar(c) == LowerTable[c]

\* str.lower()
Lower(s) == [i \in 1..Len(s) |-> LowerChar(s[i])]

IsSpace(c) == c = " "

RECURSIVE LStrip(_)
LStrip(s) == IF s # <<>> /\ IsSpace(Head(s)) THEN LStrip(Tail(s)) ELSE s

RECURSIVE RStrip(_)
RStrip(s) ==
  IF s # <<>> /\ IsSpace(s[Len(s)]) THEN RStrip(SubSeq(s, 1, Len(s) - 1)) ELSE s

\* str.strip()
Strip(s) == RStrip(LStrip(s))

\* Python's < on str: lexicographic on code points, a proper prefix is smaller.
RECURSIVE StrLess(_, _)
StrLess(a, b) ==
  IF b = <<>> THEN FALSE
  ELSE IF a = <<>> THEN TRUE
  ELSE IF Ord(Head(a)) # Ord(Head(b)) THEN Ord(Head(a)) < Ord(Head(b))
  ELSE StrLess(Tail(a), Tail(b))

\* sub in s
Contains(s, sub) ==
  \E i \in 0..(Len(s) - Len(sub)) : SubSeq(s, i + 1, i + Len(sub)) = sub

\* SQLite  text LIKE '%kw%' : containment, case-insensitive on ASCII letters.
\* (The keywords of the model hold no % or _ wildcard.)
Like(text, kw) == Contains(Lower(text), Lower(kw))

\* str.replace(FullWidthComma, ",")
ReplaceFullWidth(s) == [i \in 1..Len(s) |-> IF s[i] = FullWidthComma THEN "," ELSE s[i]]

\* str.split(","): the pieces between commas, empty pieces included.
RECURSIVE SplitComma(_, _)
SplitComma(s, cur) ==
  IF s = <<>> THEN <<cur>>
  ELSE IF Head(s) = "," THEN <<cur>> \o SplitComma(Tail(s), <<>>)
  ELSE SplitComma(Tail(s), Append(cur, Head(s)))

\* str(n) for n >= 0
RECURSIVE Digits(_)
Digits(n) ==
  LET d == DigitChars[(n % 10) + 1]
  IN IF n < 10 THEN <<d>> ELSE Append(Digits(n \div 10), d)

IsDigit(c) == Ord(c) >= 48 /\ Ord(c) <= 57

RECURSIVE DigitsValue(_, _)
DigitsValue(s, acc) ==
  IF s = <<>> THEN acc ELSE DigitsValue(Tail(s), 10 * acc + (Ord(Head(s)) - 48))

\* int(s) succeeds: an optional sign and then digits only.  (int also takes digits
\* grouped by single underscores; no text of the model holds an underscore.)
IsIntText(s) ==
  LET body == IF s # <<>> /\ Head(s) \in {"-", "+"} THEN Tail(s) ELSE s
  IN body # <<>> /\ \A i \in 1..Len(body) : IsDigit(body[i])

\* int(s), for IsIntText(s)
IntOf(s) ==
  IF Head(s) = "-" THEN 0 - DigitsValue(Tail(s), 0)
  ELSE IF Head(s) = "+" THEN DigitsValue(Tail(s), 0)
  ELSE DigitsValue(s, 0)

\* _safe_int(value, default): default is an Optional int, and so is the result.
_safe_int(value, default) ==
  LET s == Strip(value)
  IN IF s = <<>> THEN default
     ELSE IF IsIntText(s) THEN Some(IntOf(s))
     ELSE default

---------------------------------------------------------------------------
(* Configuration tables *)

tw == <<"t", "w">>
us == <<"u", "s">>
jp == <<"j", "p">>
gb == <<"g", "b">>
de == <<"d", "e">>
br == <<"b", "r">>
ru == <<"r", "u">>

TWD == <<"T", "W", "D">>
USD == <<"U", "S", "D">>
JPY == <<"J", "P", "Y">>
GBP == <<"G", "B", "P">>
EUR == <<"E", "U", "R">>
BRL == <<"B", "R", "L">>
RUB == <<"R", "U", "B">>

\* REGION_MAP_CH.get(region_code, region_code); a Chinese name is one token here.
REGION_MAP_CH(region_code) ==
  CASE region_code = tw -> <<"zh:Taiwan">>
    [] region_code = us -> <<"zh:UnitedStates">>
    [] region_code = jp -> <<"zh:Japan">>
    [] region_code = gb -> <<"zh:UnitedKingdom">>
    [] region_code = de -> <<"zh:Germany">>
    [] region_code = br -> <<"zh:Brazil">>
    [] region_code = ru -> <<"zh:Russia">>
    [] OTHER -> region_code

\* CURRENCY_MAP.get(region_code or "", "TWD")
CURRENCY_MAP(region_code) ==
  CASE region_code = tw -> TWD
    [] region_code = us -> USD
    [] region_code = jp -> JPY
    [] region_code = gb -> GBP
    [] region_code = de -> EUR
    [] region_code = br -> BRL
    [] region_code = ru -> RUB
    [] OTHER -> TWD

\* FX_TO_TWD.get(currency, 1.0), in hundredths
FX_TO_TWD(currency) ==
  CASE currency = TWD -> 100
    [] currency = USD -> 3000
    [] currency = JPY -> 20
    [] currency = GBP -> 3800
    [] currency = EUR -> 3300
    [] currency = BRL -> 600
    [] currency = RUB -> 35
    [] OTHER -> 100

\* round(n / d) for n >= 0, d > 0: Python 3 rounds a half to the even neighbour.
\* (On the prices and rates of the model the float product rounds as the exact one.)
RoundHalfEven(n, d) ==
  LET q == n \div d
      r == n % d
  IN IF 2 * r < d THEN q
     ELSE IF 2 * r > d THEN q + 1
     ELSE IF q % 2 = 0 THEN q ELSE q + 1

\* _price_to_twd(region_code, price) -> <<twd, currency>>
_price_to_twd(region_code, price) ==
  LET currency == CURRENCY_MAP(region_code)
      rate == FX_TO_TWD(currency)
  IN <<RoundHalfEven(price * rate, 10000), currency>>

---------------------------------------------------------------------------
(* The store queries of search_games *)

\* The sub-phrases of a tag phrase: split on both commas, trimmed, empty ones dropped.
TagParts(tag_keyword) ==
  LET pieces == SplitComma(ReplaceFullWidth(tag_keyword), <<>>)
  IN SelectSeq([i \in 1..Len(pieces) |-> Strip(pieces[i])], LAMBDA p : p # <<>>)

\* Variant of TagGameIds that joins the sub-phrases with AND.
TagGameIds_AllParts(T, GT, tag_keyword) ==
  LET stripped == Strip(tag_keyword)
      parts == TagParts(stripped)
  IN IF stripped = <<>> THEN {}
     ELSE IF parts = <<>> THEN {}
     ELSE {gt[1] : gt \in {x \in GT :
                    /\ x[2] \in DOMAIN T
                    /\ \A i \in 1..Len(parts) : Like(T[x[2]], parts[i])}}

\* _get_game_ids_by_tag against the tables T (Tag) and GT (GameTag): the GameIDs of
\* the GameTag rows joined to a Tag row whose name is LIKE one of the sub-phrases.
\* SELECT DISTINCT: a set.
TagGameIds(T, GT, tag_keyword) ==
  LET stripped == Strip(tag_keyword)
      parts == TagParts(stripped)
  IN IF stripped = <<>> THEN {}
     ELSE IF parts = <<>> THEN {}
     ELSE {gt[1] : gt \in {x \in GT :
                    /\ x[2] \in DOMAIN T
                    /\ \E i \in 1..Len(parts) : Like(T[x[2]], parts[i])}}

_get_game_ids_by_tag(tag_keyword) == TagGameIds(Tag, GameTag, tag_keyword)

\* The rows of  Game G LEFT JOIN PriceRecord P ON G.GameID = P.GameID  under the
\* WHERE clause search_games builds.  tag_game_ids is None or Some(set).  rid is the
\* PriceRecordID of the joined row (0 for a game without price rows); it only keeps
\* equal rows apart.
JoinedRows(name_keyword, tag_game_ids) ==
  LET matches(g) ==
        /\ (name_keyword # <<>> => Like(Game[g].MainTitle, name_keyword))
        /\ (~IsNone(tag_game_ids) => g \in Val(tag_game_ids))
      row(g, rid, region, price) ==
        [GameID |-> g, MainTitle |-> Game[g].MainTitle, IsFree |-> Game[g].IsFree,
         RegionCode |-> region, FinalPrice |-> price, rid |-> rid]
      priced(g) == {i \in 1..Len(PriceRecord) : PriceRecord[i].GameID = g}
  IN UNION {
       IF priced(g) = {}
       THEN {row(g, 0, None, None)}
       ELSE {row(g, i, Some(PriceRecord[i].RegionCode), PriceRecord[i].FinalPrice) :
               i \in priced(g)}
       : g \in {h \in DOMAIN Game : matches(h)}}

\* The orders in which cur.fetchall() may deliver a set of rows: the query has no
\* ORDER BY, so every order.
Deliveries(rows) ==
  LET n == Cardinality(rows)
  IN {f \in [1..n -> rows] : \A i, j \in 1..n : f[i] = f[j] => i = j}

---------------------------------------------------------------------------
(* search_games *)

\* The keys of the dict grouped, in insertion order: the GameIDs of the rows by
\* first appearance.
RECURSIVE GroupOrder(_, _)
GroupOrder(rows, seen) ==
  IF rows = <<>> THEN <<>>
  ELSE IF Head(rows).GameID \in seen THEN GroupOrder(Tail(rows), seen)
  ELSE <<Head(rows).GameID>> \o GroupOrder(Tail(rows), seen \cup {Head(rows).GameID})

\* grouped[g]["records"]: the rows of game g, in delivery order.
GroupRecords(rows, g) == SelectSeq(rows, LAMBDA r : r.GameID = g)

\* Variant of CandidateLess with the key (twd, region, orig): the region code is
\* compared before the native price.
CandidateLess_RegionFirst(x, y) ==
  \/ x.twd < y.twd
  \/ x.twd = y.twd /\ StrLess(x.region, y.region)
  \/ x.twd = y.twd /\ x.region = y.region /\ x.orig < y.orig

\* Variant of CandidateLess with the key (twd, orig): no region code in the key.
CandidateLess_NoRegion(x, y) ==
  \/ x.twd < y.twd
  \/ x.twd = y.twd /\ x.orig < y.orig

\* The sort key of positive_candidates: (twd, orig, region).
CandidateLess(x, y) ==
  \/ x.twd < y.twd
  \/ x.twd = y.twd /\ x.orig < y.orig
  \/ x.twd = y.twd /\ x.orig = y.orig /\ StrLess(x.region, y.region)

\* list.sort is stable: x goes after every element that is not greater.
RECURSIVE InsertCandidate(_, _)
InsertCandidate(sorted, x) ==
  IF sorted = <<>> THEN <<x>>
  ELSE IF CandidateLess(x, Head(sorted)) THEN <<x>> \o sorted
  ELSE <<Head(sorted)>> \o InsertCandidate(Tail(sorted), x)

RECURSIVE SortCandidates(_, _)
SortCandidates(todo, sorted) ==
  IF todo = <<>> THEN sorted
  ELSE SortCandidates(Tail(todo), InsertCandidate(sorted, Head(todo)))

\* The loop over records: the positive candidates, in record order.
RECURSIVE PositiveCandidates(_)
PositiveCandidates(records) ==
  IF records = <<>> THEN <<>>
  ELSE LET r == Head(records)
           rest == PositiveCandidates(Tail(records))
       IN IF IsNone(r.FinalPrice) THEN rest
          ELSE IF Val(r.FinalPrice) <= 0 THEN rest
          ELSE IF IsNone(r.RegionCode) THEN rest
          ELSE LET conv == _price_to_twd(Val(r.RegionCode), Val(r.FinalPrice))
               IN <<[twd |-> conv[1], region |-> Val(r.RegionCode),
                     orig |-> Val(r.FinalPrice), currency |-> conv[2]]>> \o rest

FreeMarker == <<"zh:Free">>

NoRegion == <<"--">>

\* price_str of a priced game: "<n> TWD" or "<n> <CUR> (~ <twd> TWD)"; "~" stands
\* for the Chinese word for "about".
PriceStr(orig, currency, twd) ==
  IF currency = TWD
  THEN Digits(RoundHalfEven(orig, 100)) \o <<" ">> \o TWD
  ELSE Digits(RoundHalfEven(orig, 100)) \o <<" ">> \o currency
         \o <<" ", "(", "~", " ">> \o Digits(twd) \o <<" ">> \o TWD \o <<")">>

\* Variant of IsTreatedFree in which the free-flag too counts only for a game that
\* has a price value.
IsTreatedFree_NeedsPrice(has_any_price_value, has_zero_price, is_free_flag) ==
  has_any_price_value /\ (has_zero_price \/ is_free_flag = 1)

\* Variant of IsTreatedFree without the skip: every game without positive candidate
\* is shown as free.
IsTreatedFree_Always(has_any_price_value, has_zero_price, is_free_flag) == TRUE

\* The free branch: is the game without positive candidate shown as free?
IsTreatedFree(has_any_price_value, has_zero_price, is_free_flag) ==
  (has_any_price_value /\ has_zero_price) \/ is_free_flag = 1

\* The body of the loop over grouped, up to the range test: None when the game is
\* skipped, else Some of the game's twd_min, price_str and region_ch.
NormalizePrice(records, is_free_flag) ==
  LET has_any_price_value == \E i \in 1..Len(records) : ~IsNone(records[i].FinalPrice)
      has_zero_price ==
        \E i \in 1..Len(records) :
          ~IsNone(records[i].FinalPrice) /\ Val(records[i].FinalPrice) <= 0
      positive_candidates == SortCandidates(PositiveCandidates(records), <<>>)
  IN IF positive_candidates # <<>>
     THEN LET best == positive_candidates[1]
          IN Some([twd |-> best.twd,
                   price |-> PriceStr(best.orig, best.currency, best.twd),
                   region |-> REGION_MAP_CH(best.region)])
     ELSE IF IsTreatedFree(has_any_price_value, has_zero_price, is_free_flag)
          THEN Some([twd |-> 0, price |-> FreeMarker, region |-> NoRegion])
          ELSE None

\* Variant of InRange whose upper bound is exclusive.
InRange_ExclusiveMax(twd_min, min_price_twd, max_price_twd) ==
  /\ ~(twd_min < min_price_twd)
  /\ ~(~IsNone(max_price_twd) /\ twd_min >= Val(max_price_twd))

\* The two range tests of the loop: is a game of canonical price twd_min kept?
InRange(twd_min, min_price_twd, max_price_twd) ==
  /\ ~(twd_min < min_price_twd)
  /\ ~(~IsNone(max_price_twd) /\ twd_min > Val(max_price_twd))

\* Variant of ResultLess that compares the titles as written.
ResultLess_CaseSensitive(x, y) ==
  \/ x._twd < y._twd
  \/ x._twd = y._twd /\ StrLess(x.title, y.title)

\* The key of the final sort: (_twd, title.lower()).
ResultLess(x, y) ==
  \/ x._twd < y._twd
  \/ x._twd = y._twd /\ StrLess(Lower(x.title), Lower(y.title))

RECURSIVE InsertResult(_, _)
InsertResult(sorted, x) ==
  IF sorted = <<>> THEN <<x>>
  ELSE IF ResultLess(x, Head(sorted)) THEN <<x>> \o sorted
  ELSE <<Head(sorted)>> \o InsertResult(Tail(sorted), x)

RECURSIVE SortResults(_, _)
SortResults(todo, sorted) ==
  IF todo = <<>> THEN sorted
  ELSE SortResults(Tail(todo), InsertResult(sorted, Head(todo)))

\* The loop over grouped: the result dicts, with _twd, in the order of grouped.
RECURSIVE BuildResults(_, _, _, _)
BuildResults(order, rows, min_price_twd, max_price_twd) ==
  IF order = <<>> THEN <<>>
  ELSE LET g == Head(order)
           records == GroupRecords(rows, g)
           norm == NormalizePrice(records, records[1].IsFree)
           rest == BuildResults(Tail(order), rows, min_price_twd, max_price_twd)
       IN IF IsNone(norm) THEN rest
          ELSE IF ~InRange(Val(norm).twd, min_price_twd, max_price_twd) THEN rest
          ELSE <<[appid |-> g, title |-> records[1].MainTitle,
                  price |-> Val(norm).price, region |-> Val(norm).region,
                  _twd |-> Val(norm).twd]>> \o rest

\* r.pop("_twd")
StripSortKey(rs) ==
  [i \in 1..Len(rs) |->
     [appid |-> rs[i].appid, title |-> rs[i].title,
      price |-> rs[i].price, region |-> rs[i].region]]

\* search_games from the fetched rows on: group, normalize, filter, sort, strip.
SearchRows(rows, min_price_twd, max_price_twd) ==
  StripSortKey(SortResults(
    BuildResults(GroupOrder(rows, {}), rows, min_price_twd, max_price_twd), <<>>))

\* The tag filter of search_games: None when no tag restriction applies, else
\* Some(the set of GameIDs of _get_game_ids_by_tag).
TagFilter(tag_keyword) ==
  IF Strip(tag_keyword) # <<>> THEN Some(_get_game_ids_by_tag(tag_keyword)) ELSE None

\* Variant of search_games without the early return: an empty tag result restricts
\* nothing.
search_games_NoShortCircuit(name_keyword, tag_keyword, min_price_twd, max_price_twd) ==
  LET tag_game_ids == TagFilter(tag_keyword)
      restriction == IF ~IsNone(tag_game_ids) /\ Val(tag_game_ids) = {}
                     THEN None ELSE tag_game_ids
  IN {SearchRows(rows, min_price_twd, max_price_twd) :
        rows \in Deliveries(JoinedRows(name_keyword, restriction))}

\* The lists search_games can return, one per delivery order of the joined rows.
search_games(name_keyword, tag_keyword, min_price_twd, max_price_twd) ==
  LET tag_game_ids == TagFilter(tag_keyword)
  IN IF ~IsNone(tag_game_ids) /\ Val(tag_game_ids) = {}
     THEN {<<>>}
     ELSE {SearchRows(rows, min_price_twd, max_price_twd) :
             rows \in Deliveries(JoinedRows(name_keyword, tag_game_ids))}

---------------------------------------------------------------------------
(* The request handler index *)

ErrFormat == <<"zh:PriceInputFormatIsWrong">>

ErrNegative == <<"zh:PriceMustBeZeroOrPositiveOrBlank">>

ErrInverted == <<"zh:MinimumPriceMustNotExceedMaximumPrice">>

EmptyForm ==
  [name_keyword |-> <<>>, tag_keyword |-> <<>>, min_price |-> <<>>, max_price |-> <<>>]

\* The decision of index on the parsed bounds: Some(message) or None (search runs).
Validate(min_price_twd, max_price_twd) ==
  IF IsNone(min_price_twd) THEN Some(ErrFormat)
  ELSE IF Val(min_price_twd) < 0 \/ (~IsNone(max_price_twd) /\ Val(max_price_twd) < 0)
       THEN Some(ErrNegative)
  ELSE IF ~IsNone(max_price_twd) /\ Val(min_price_twd) > Val(max_price_twd)
       THEN Some(ErrInverted)
  ELSE None

\* The minimum index works with: _safe_int(min_price_raw, 0)
ParseMin(min_price_raw) == _safe_int(min_price_raw, Some(0))

\* The maximum index works with: _safe_int(max_price_raw, None)
ParseMax(max_price_raw) == _safe_int(max_price_raw, None)

T_Alpha == <<"A", "l", "p", "h", "a">>
T_alpha == <<"a", "l", "p", "h", "a">>
T_Beta == <<"B", "e", "t", "a">>
T_Action == <<"A", "c", "t", "i", "o", "n">>
T_RPG == <<"R", "P", "G">>
T_Act == <<"A", "c", "t">>
T_rpg == <<"r", "p", "g">>
T_300 == <<"3", "0", "0">>
T_9000 == <<"9", "0", "0", "0">>
T_minus1 == <<"-", "1">>
T_abc == <<"a", "b", "c">>
T_commas == <<FullWidthComma, " ", ",">>
T_Act_rpg == T_Act \o <<",", " ">> \o T_rpg

\* The texts a client submits in the four form fields.
NameInputs == {<<>>, T_Alpha}

TagInputs == {<<>>, <<" ">>, T_commas, T_Act, T_rpg, T_Act_rpg}

MinInputs == {<<>>, T_9000, T_minus1, T_abc}

MaxInputs == {<<>>, <<" ">> \o T_300, T_minus1, T_abc}

\* POST /
IndexPost ==
  /\ pc = "idle"
  /\ \E name_raw \in NameInputs, tag_raw \in TagInputs,
        min_raw \in MinInputs, max_raw \in MaxInputs :
       LET name_keyword == Strip(name_raw)
           tag_keyword == Strip(tag_raw)
           min_price_raw == Strip(min_raw)
           max_price_raw == Strip(max_raw)
           min_price_twd == ParseMin(min_price_raw)
           max_price_twd == ParseMax(max_price_raw)
           error == Validate(min_price_twd, max_price_twd)
       IN /\ form' = [name_keyword |-> name_keyword, tag_keyword |-> tag_keyword,
                      min_price |-> min_price_raw, max_price |-> max_price_raw]
          /\ error_message' = error
          /\ IF IsNone(error)
             THEN /\ results' \in search_games(name_keyword, tag_keyword,
                                                Val(min_price_twd), max_price_twd)
                  /\ searched' = TRUE
             ELSE /\ results' = <<>>
                  /\ searched' = FALSE
  /\ pc' = "rendered"
  /\ UNCHANGED <<store, run>>

\* GET /
IndexGet ==
  /\ pc = "idle"
  /\ form' = EmptyForm
  /\ error_message' = None
  /\ results' = <<>>
  /\ searched' = FALSE
  /\ pc' = "rendered"
  /\ UNCHANGED <<store, run>>

\* index returns the rendered page; its locals are gone, the next request starts afresh.
IndexReturn ==
  /\ pc = "rendered"
  /\ form' = EmptyForm
  /\ error_message' = None
  /\ results' = <<>>
  /\ searched' = FALSE
  /\ pc' = "idle"
  /\ UNCHANGED <<store, run>>

---------------------------------------------------------------------------
(* The store snapshots *)

GameIDs == {100, 200}

TagIDs == {1, 2}

Titles == {T_Alpha, T_alpha, T_Beta}

\* A region code that none of the tables of app.py knows.
xx == <<"x", "x">>

\* The observations a PriceRecord row can carry.  search_games never reads the
\* region of a row whose price is NULL or not positive, so one region stands for all
\* in those rows; xx is a region code none of the tables knows.
ObservationKinds ==
  <<[RegionCode |-> tw, FinalPrice |-> None],
    [RegionCode |-> tw, FinalPrice |-> Some(0)],
    [RegionCode |-> tw, FinalPrice |-> Some(999)],
    [RegionCode |-> tw, FinalPrice |-> Some(30000)],
    [RegionCode |-> us, FinalPrice |-> Some(999)],
    [RegionCode |-> us, FinalPrice |-> Some(30000)],
    [RegionCode |-> xx, FinalPrice |-> Some(999)],
    [RegionCode |-> xx, FinalPrice |-> Some(30000)]>>

PriceRows ==
  {[GameID |-> g, RegionCode |-> ObservationKinds[k].RegionCode,
    FinalPrice |-> ObservationKinds[k].FinalPrice] :
     g \in GameIDs, k \in 1..Len(ObservationKinds)}

RowRank(r) ==
  10 * r.GameID
    + (CHOOSE k \in 1..Len(ObservationKinds) :
         /\ ObservationKinds[k].RegionCode = r.RegionCode
         /\ ObservationKinds[k].FinalPrice = r.FinalPrice)

\* No query reads the order of the rows of PriceRecord (their PriceRecordID), so
\* one table stands for each bag of rows: the one in rank order.
PriceTables(n) ==
  {t \in [1..n -> PriceRows] : \A i \in 1..(n - 1) : RowRank(t[i]) <= RowRank(t[i + 1])}

\* The rows of PriceRecord and GameTag together.
MaxRows == 2

\* No request is being served.
NoRequest ==
  /\ pc = "idle"
  /\ results = <<>>
  /\ error_message = None
  /\ form = EmptyForm
  /\ searched = FALSE

\* No ingestion run is under way.
NoRun ==
  /\ main_pc = "off"
  /\ app_ids = <<>>
  /\ app_id = 0
  /\ ccs = <<>>
  /\ first_ok_data = None
  /\ fetched = <<>>

\* The tables hold rows of the games of the Game table only: a PriceRecord or GameTag
\* row of another GameID is joined to no row of Game and read by no query result.
Init ==
  /\ \E D \in SUBSET GameIDs :
       /\ Game \in [D -> [MainTitle : Titles, IsFree : {0, 1}]]
       /\ \E n \in 0..MaxRows :
            /\ PriceRecord \in {t \in PriceTables(n) : \A i \in 1..n : t[i].GameID \in D}
            /\ GameTag \in {L \in SUBSET (D \X TagIDs) : Cardinality(L) <= MaxRows - n}
  /\ Tag = (1 :> T_Action) @@ (2 :> T_RPG)
  /\ NoRequest
  /\ NoRun

Next == IndexPost \/ IndexGet \/ IndexReturn

Spec == Init /\ [][Next]_vars

---------------------------------------------------------------------------
(* The ingestion run of main.py *)

(* A metadata (the dict fetch_from_steam returns) is a record of the keys   *)
(* the writers read, each an Optional: None is an absent key.  The prices   *)
(* of price_overview are in hundredths of the currency unit, as the         *)
(* storefront gives them; a price_overview holds its three keys.            *)

\* REGIONS.keys(), in the order of the dict
RegionKeys == <<tw, us, jp, gb, de, br, ru>>

\* The regions a run of the model goes through: the first MaxRegions of REGIONS.
MaxRegions == 3

Regions == SubSeq(RegionKeys, 1, MaxRegions)

T_Sep == <<" ", "-", " ">>

T_Alpha_Beta == T_Alpha \o T_Sep \o T_Beta

\* The dict with no key: {}
D_Empty ==
  [name |-> None, is_free |-> None, price_overview |-> None,
   genres |-> None, categories |-> None]

D_Alpha ==
  [name |-> Some(T_Alpha), is_free |-> Some(FALSE),
   price_overview |-> Some([initial |-> 1999, final |-> 999, discount_percent |-> 50]),
   genres |-> Some(<<[id |-> <<"1">>, description |-> T_Action]>>),
   categories |-> None]

D_BetaFree ==
  [name |-> Some(T_Beta), is_free |-> Some(TRUE), price_overview |-> None,
   genres |-> None,
   categories |-> Some(<<[id |-> 2, description |-> T_RPG]>>)]

D_AlphaEdition ==
  [name |-> Some(T_Alpha_Beta), is_free |-> Some(FALSE),
   price_overview |-> Some([initial |-> 30050, final |-> 30050, discount_percent |-> 0]),
   genres |-> Some(<<[id |-> <<"1">>, description |-> T_Action],
                     [id |-> <<"2">>, description |-> T_RPG]>>),
   categories |-> None]

\* A metadata without the key name.
D_NoName ==
  [name |-> None, is_free |-> Some(FALSE),
   price_overview |-> Some([initial |-> 999, final |-> 999, discount_percent |-> 0]),
   genres |-> Some(<<[id |-> <<"2">>, description |-> T_RPG]>>),
   categories |-> None]

\* A metadata whose name is the empty text.
D_EmptyName ==
  [name |-> Some(<<>>), is_free |-> Some(TRUE), price_overview |-> None,
   genres |-> None, categories |-> None]

Metadata == {D_Empty, D_Alpha, D_BetaFree, D_AlphaEdition, D_NoName, D_EmptyName}

\* fetch_from_steam(app_id, cc): None (success false, no data, or an exception
\* caught) or the metadata of the answer.
FetchResults == {None} \cup {Some(d) : d \in Metadata}

\* not data, for a dict
IsEmptyDict(data) ==
  /\ IsNone(data.name)
  /\ IsNone(data.is_free)
  /\ IsNone(data.price_overview)
  /\ IsNone(data.genres)
  /\ IsNone(data.categories)

\* s.find(sub): the first index (from 1) where sub occurs in s, 0 when it does not.
Find(s, sub) ==
  IF Contains(s, sub)
  THEN 1 + (CHOOSE i \in 0..(Len(s) - Len(sub)) :
              /\ SubSeq(s, i + 1, i + Len(sub)) = sub
              /\ \A j \in 0..(i - 1) : SubSeq(s, j + 1, j + Len(sub)) # sub)
  ELSE 0

\* main of  main, edition = full.split(" - ", 1)  or  main, edition = full, None
MainTitleOf(full) ==
  IF Contains(full, T_Sep) THEN SubSeq(full, 1, Find(full, T_Sep) - 1) ELSE full

\* data.get("name", "")
NameOf(data) == IF IsNone(data.name) THEN <<>> ELSE Val(data.name)

\* 1 if data.get("is_free") else 0
IsFreeOf(data) == IF ~IsNone(data.is_free) /\ Val(data.is_free) THEN 1 ELSE 0

\* insert_game_and_related returns before it writes anything.
SkipsInsert(data) == IsEmptyDict(data) \/ NameOf(data) = <<>>

\* INSERT OR REPLACE INTO Game
ReplaceGame(G, app, row) ==
  [g \in (DOMAIN G) \cup {app} |-> IF g = app THEN row ELSE G[g]]

\* INSERT OR IGNORE INTO Tag
IgnoreTag(T, tid, tname) ==
  IF tid \in DOMAIN T THEN T ELSE [t \in (DOMAIN T) \cup {tid} |-> IF t = tid THEN tname ELSE T[t]]

\* The loop over genres: int(g.get("id")) of a text id.
RECURSIVE InsertGenres(_, _, _)
InsertGenres(tg, app, gs) ==
  IF gs = <<>> THEN tg
  ELSE LET tid == IntOf(Head(gs).id)
       IN InsertGenres([Tag |-> IgnoreTag(tg.Tag, tid, Head(gs).description),
                        GameTag |-> tg.GameTag \cup {<<app, tid>>}],
                       app, Tail(gs))

\* The loop over categories: int(c.get("id")) of a number.
RECURSIVE InsertCategories(_, _, _)
InsertCategories(tg, app, cs) ==
  IF cs = <<>> THEN tg
  ELSE LET tid == Head(cs).id
       IN InsertCategories([Tag |-> IgnoreTag(tg.Tag, tid, Head(cs).description),
                            GameTag |-> tg.GameTag \cup {<<app, tid>>}],
                           app, Tail(cs))

\* insert_game_and_related(cur, app_id, data): the tables Game, Tag and GameTag after it.
insert_game_and_related(app, data) ==
  IF SkipsInsert(data)
  THEN [Game |-> Game, Tag |-> Tag, GameTag |-> GameTag]
  ELSE LET row == [MainTitle |-> MainTitleOf(NameOf(data)), IsFree |-> IsFreeOf(data)]
           tg0 == [Tag |-> Tag, GameTag |-> GameTag]
           tg1 == IF IsNone(data.genres) THEN tg0
                  ELSE InsertGenres(tg0, app, Val(data.genres))
           tg2 == IF IsNone(data.categories) THEN tg1
                  ELSE InsertCategories(tg1, app, Val(data.categories))
       IN [Game |-> ReplaceGame(Game, app, row), Tag |-> tg2.Tag, GameTag |-> tg2.GameTag]

\* int(p["final"] / 100), a count of whole units, as the hundredths the tables
\* of this model hold.
StoredPrice(hundredths) == 100 * (hundredths \div 100)

\* insert_price(cur, app_id, region_code, data): the table PriceRecord after it.
insert_price(app, region_code, data) ==
  LET final == IF IsNone(data.price_overview) THEN 0
               ELSE StoredPrice(Val(data.price_overview).final)
  IN Append(PriceRecord,
            [GameID |-> app, RegionCode |-> region_code, FinalPrice |-> Some(final)])

\* fetch_appids_from_store(): a list of app ids without repetition.
AppIdLists ==
  {l \in UNION {[1..n -> GameIDs] : n \in 0..Cardinality(GameIDs)} :
     \A i, j \in 1..Len(l) : i # j => l[i] # l[j]}

\* main up to the outer loop: the list of app ids is fetched, init_db has made the
\* tables of an empty store.
MainInit ==
  /\ Game = <<>>
  /\ PriceRecord = <<>>
  /\ Tag = <<>>
  /\ GameTag = {}
  /\ NoRequest
  /\ main_pc = "apps"
  /\ app_ids \in AppIdLists
  /\ app_id = 0
  /\ ccs = <<>>
  /\ first_ok_data = None
  /\ fetched = <<>>

\* for app_id in app_ids:  the next app id, first_ok_data = None
NextApp ==
  /\ main_pc = "apps"
  /\ app_ids # <<>>
  /\ app_id' = Head(app_ids)
  /\ app_ids' = Tail(app_ids)
  /\ first_ok_data' = None
  /\ ccs' = Regions
  /\ fetched' = [a \in (DOMAIN fetched) \cup {Head(app_ids)} |->
                   IF a = Head(app_ids) THEN <<>> ELSE fetched[a]]
  /\ main_pc' = "regions"
  /\ UNCHANGED <<store, request>>

\* One iteration of  for cc in REGIONS.keys()
FetchRegion ==
  /\ main_pc = "regions"
  /\ ccs # <<>>
  /\ \E got \in FetchResults :
       /\ fetched' = [fetched EXCEPT ![app_id] = Append(@, got)]
       /\ IF IsNone(got)
          THEN UNCHANGED <<store, first_ok_data>>
          ELSE LET data == Val(got)
                   written == IF IsNone(first_ok_data)
                              THEN insert_game_and_related(app_id, data)
                              ELSE [Game |-> Game, Tag |-> Tag, GameTag |-> GameTag]
               IN /\ first_ok_data' = IF IsNone(first_ok_data) THEN Some(data)
                                      ELSE first_ok_data
                  /\ Game' = written.Game
                  /\ Tag' = written.Tag
                  /\ GameTag' = written.GameTag
                  /\ PriceRecord' = insert_price(app_id, Head(ccs), data)
  /\ ccs' = Tail(ccs)
  /\ UNCHANGED <<request, main_pc, app_ids, app_id>>

\* The inner loop is over: conn.commit() and the price report, which writes nothing.
CommitApp ==
  /\ main_pc = "regions"
  /\ ccs = <<>>
  /\ main_pc' = "apps"
  /\ UNCHANGED <<store, request, app_ids, app_id, ccs, first_ok_data, fetched>>

\* The outer loop is over: conn.close()
MainClose ==
  /\ main_pc = "apps"
  /\ app_ids = <<>>
  /\ main_pc' = "closed"
  /\ UNCHANGED <<store, request, app_ids, app_id, ccs, first_ok_data, fetched>>

MainNext == NextApp \/ FetchRegion \/ CommitApp \/ MainClose

MainSpec == MainInit /\ [][MainNext]_vars

---------------------------------------------------------------------------
(* What the claims speak of *)

\* index has run search_games and rendered its result.
SearchRan == pc = "rendered" /\ searched

\* The bounds search_games was called with.
ReqMin == Val(ParseMin(form.min_price))

ReqMax == ParseMax(form.max_price)

\* The PriceRecord rows of game g.
ObsOf(g) == {i \in 1..Len(PriceRecord) : PriceRecord[i].GameID = g}

PositiveObs(g) ==
  {i \in ObsOf(g) : ~IsNone(PriceRecord[i].FinalPrice) /\ Val(PriceRecord[i].FinalPrice) > 0}

NonPositiveObs(g) ==
  {i \in ObsOf(g) : ~IsNone(PriceRecord[i].FinalPrice) /\ Val(PriceRecord[i].FinalPrice) <= 0}

\* Game g has a tag whose name contains the sub-phrase p.
HasTagLike(g, p) ==
  \E gt \in GameTag : gt[1] = g /\ gt[2] \in DOMAIN Tag /\ Like(Tag[gt[2]], p)

NameMatches(g) == form.name_keyword = <<>> \/ Like(Game[g].MainTitle, form.name_keyword)

TagMatches(g) ==
  \/ Strip(form.tag_keyword) = <<>>
  \/ \E k \in 1..Len(TagParts(form.tag_keyword)) : HasTagLike(g, TagParts(form.tag_keyword)[k])

PassesFilters(g) == NameMatches(g) /\ TagMatches(g)

\* The reference value of observation i: round(price * rate).
TwdOf(i) == _price_to_twd(PriceRecord[i].RegionCode, Val(PriceRecord[i].FinalPrice))[1]

\* (reference value, native price, region code) of i is not above that of j.
KeyLeq(i, j) ==
  LET a == PriceRecord[i]
      b == PriceRecord[j]
  IN \/ TwdOf(i) < TwdOf(j)
     \/ TwdOf(i) = TwdOf(j) /\ Val(a.FinalPrice) < Val(b.FinalPrice)
     \/ /\ TwdOf(i) = TwdOf(j)
        /\ Val(a.FinalPrice) = Val(b.FinalPrice)
        /\ ~StrLess(b.RegionCode, a.RegionCode)

\* The observations of g that are minimal under the key.
MinimalObs(g) == {i \in PositiveObs(g) : \A j \in PositiveObs(g) : KeyLeq(i, j)}

\* The price display and the region label of observation i.
DisplayOf(i) ==
  PriceStr(Val(PriceRecord[i].FinalPrice), CURRENCY_MAP(PriceRecord[i].RegionCode), TwdOf(i))

LabelOf(i) == REGION_MAP_CH(PriceRecord[i].RegionCode)

\* The rows of the rendered result that show game g.
RowsFor(g) == {k \in 1..Len(results) : results[k].appid = g}

AppIds(rs) == {rs[k].appid : k \in 1..Len(rs)}

IsFreeRow(r) == r.price = FreeMarker /\ r.region = NoRegion

\* The price 0 lies in the requested range.
ZeroInRange == ReqMin <= 0

\* The game is not skipped by the price normalizer, and its canonical price.
NotExcluded(g) == PositiveObs(g) # {} \/ NonPositiveObs(g) # {} \/ Game[g].IsFree = 1

CanonicalOf(g) ==
  IF PositiveObs(g) = {} THEN 0 ELSE TwdOf(CHOOSE i \in MinimalObs(g) : TRUE)

WithinBounds(c) == ReqMin <= c /\ (IsNone(ReqMax) \/ c <= Val(ReqMax))

---------------------------------------------------------------------------
(* C1 *)

\* The store of the example: one game, titled Alpha, observed at (tw, 300) and (us, 9.99).
ExampleStore ==
  /\ DOMAIN Game = {100}
  /\ Game[100].MainTitle = T_Alpha
  /\ Len(PriceRecord) = 2
  /\ {<<PriceRecord[i].RegionCode, PriceRecord[i].FinalPrice>> : i \in 1..2}
       = {<<tw, Some(30000)>>, <<us, Some(999)>>}

\* search_games(name = "Alpha", tag = "", min = 0, max = 300) has run on it.
ExampleSearch ==
  /\ SearchRan
  /\ ExampleStore
  /\ form.name_keyword = T_Alpha
  /\ form.tag_keyword = <<>>
  /\ ReqMin = 0
  /\ ReqMax = Some(300)

\* "300 TWD"
T_300_TWD == <<"3", "0", "0", " ", "T", "W", "D">>

\* "10 USD (~ 300 TWD)"
T_10_USD_300_TWD ==
  <<"1", "0", " ", "U", "S", "D", " ", "(", "~", " ", "3", "0", "0", " ", "T", "W", "D", ")">>

\* C1 as claimed: the search of the example returns exactly one row, whose price
\* display is "300 TWD" and whose region label is the display name of region tw.
C1_ExampleShowsTw ==
  ExampleSearch =>
    /\ Len(results) = 1
    /\ results[1].title = T_Alpha
    /\ results[1].price = T_300_TWD
    /\ results[1].region = <<"zh:Taiwan">>

\* C1 as amended: the search of the example returns exactly one row, whose price
\* display is "10 USD (~ 300 TWD)" and whose region label is the display name of
\* region us: both observations convert to 300 and the smaller native price wins.
C1_ExampleShowsUs ==
  ExampleSearch =>
    /\ Len(results) = 1
    /\ results[1].title = T_Alpha
    /\ results[1].price = T_10_USD_300_TWD
    /\ results[1].region = <<"zh:UnitedStates">>

C1_Witness == ExampleSearch /\ Len(results) = 1

---------------------------------------------------------------------------
(* C2 *)

\* Game g passed the filters, has no positive observation, and price 0 is in range:
\* whether it is treated as free shows as a free row in the result.
FreeCase(g) == SearchRan /\ PassesFilters(g) /\ PositiveObs(g) = {} /\ ZeroInRange

ShownFree(g) == RowsFor(g) # {} /\ \A k \in RowsFor(g) : IsFreeRow(results[k])

\* C2 as claimed: a game without positive candidate is treated as free if and only if
\* one of its observations is zero or negative, or its free-flag is set and it has at
\* least one observation row; otherwise it contributes no row.
C2_FreeNeedsObservation ==
  \A g \in DOMAIN Game :
    FreeCase(g) =>
      LET free == NonPositiveObs(g) # {} \/ (Game[g].IsFree = 1 /\ ObsOf(g) # {})
      IN IF free THEN ShownFree(g) ELSE RowsFor(g) = {}

\* C2 as amended: a game without positive candidate is treated as free if and only if
\* one of its observations is zero or negative, or its free-flag is set (whether or
\* not it has any observation row); otherwise it contributes no row.
C2_FreeByFlagOrZero ==
  \A g \in DOMAIN Game :
    FreeCase(g) =>
      LET free == NonPositiveObs(g) # {} \/ Game[g].IsFree = 1
      IN IF free THEN ShownFree(g) ELSE RowsFor(g) = {}

\* A game with the free-flag set and no observation row at all is shown as free.
C2_Witness ==
  \E g \in DOMAIN Game :
    FreeCase(g) /\ Game[g].IsFree = 1 /\ ObsOf(g) = {} /\ ShownFree(g)

---------------------------------------------------------------------------
(* C3 *)

\* C3: a game with a positive observation that passes the filters is shown exactly
\* when the reference value of its key-minimal observation is within the bounds, and
\* then in one row, whose price display and region label are those of that
\* observation (so the canonical price, the display and the label all come from the
\* observation minimal under (reference value, native price, region code)).
C3_MinimalObservationWins ==
  SearchRan =>
    \A g \in DOMAIN Game :
      PassesFilters(g) /\ PositiveObs(g) # {} =>
        /\ MinimalObs(g) # {}
        /\ \A i \in MinimalObs(g) :
             /\ RowsFor(g) # {} <=> WithinBounds(TwdOf(i))
             /\ Cardinality(RowsFor(g)) <= 1
             /\ \A k \in RowsFor(g) :
                  results[k].price = DisplayOf(i) /\ results[k].region = LabelOf(i)

\* A game shown with two observations equal in reference value and native price: the
\* region code decides.
C3_Witness ==
  /\ SearchRan
  /\ \E g \in DOMAIN Game :
       /\ RowsFor(g) # {}
       /\ \E i, j \in PositiveObs(g) :
            /\ TwdOf(i) = TwdOf(j)
            /\ PriceRecord[i].FinalPrice = PriceRecord[j].FinalPrice
            /\ PriceRecord[i].RegionCode = tw
            /\ PriceRecord[j].RegionCode = xx
            /\ \A k \in RowsFor(g) : results[k].region = <<"zh:Taiwan">>

---------------------------------------------------------------------------
(* C4 *)

\* C4: the rendered list is the list search_games returns for every order in which
\* the store can deliver the joined rows.
C4_SameListWhateverOrder ==
  SearchRan =>
    \A r \in search_games(form.name_keyword, form.tag_keyword, ReqMin, ReqMax) :
      r = results

---------------------------------------------------------------------------
(* C5 *)

IsNegativeText(t) == IsIntText(t) /\ IntOf(t) < 0

IsBadNumberText(t) == t # <<>> /\ ~IsIntText(t)

\* The submitted price fields are invalid in the sense of the claim.
InvalidPriceFields ==
  \/ IsNegativeText(form.min_price)
  \/ IsNegativeText(form.max_price)
  \/ /\ IsIntText(form.min_price)
     /\ IsIntText(form.max_price)
     /\ IntOf(form.min_price) > IntOf(form.max_price)
  \/ IsBadNumberText(form.min_price)
  \/ IsBadNumberText(form.max_price)

\* C5: whenever the submitted minimum or maximum is negative, the minimum exceeds
\* the maximum, or a price field holds non-empty non-numeric text, index sets an
\* error message and does not call search_games (the results stay empty).
C5_InvalidInputRejected ==
  pc = "rendered" /\ InvalidPriceFields =>
    ~IsNone(error_message) /\ ~searched /\ results = <<>>

---------------------------------------------------------------------------
(* C6 *)

\* Game g has no observation with a price, and its free-flag is unset.
Unpriced(g) ==
  Game[g].IsFree = 0 /\ \A i \in ObsOf(g) : IsNone(PriceRecord[i].FinalPrice)

\* C6: a game with no price row, or only rows whose price is null, and whose
\* free-flag is unset is in no result of search_games.
C6_UnpricedNeverShown ==
  SearchRan => \A g \in DOMAIN Game : Unpriced(g) => RowsFor(g) = {}

\* Such a game, with a null-price row, passes empty filters and an unbounded range
\* and is not shown, next to a game that is.
C6_Witness ==
  /\ SearchRan
  /\ form = EmptyForm
  /\ results # <<>>
  /\ \E g \in DOMAIN Game : Unpriced(g) /\ ObsOf(g) # {} /\ RowsFor(g) = {}

---------------------------------------------------------------------------
(* C7 *)

\* The games the name filter and the price logic alone let through.
ShownByNameAlone ==
  {g \in DOMAIN Game : NameMatches(g) /\ NotExcluded(g) /\ WithinBounds(CanonicalOf(g))}

\* The tag phrase is not empty, and it has no sub-phrase or its sub-phrases match
\* no game.
TagPhraseMatchesNothing ==
  /\ Strip(form.tag_keyword) # <<>>
  /\ \A g \in DOMAIN Game :
       \A k \in 1..Len(TagParts(form.tag_keyword)) :
         ~HasTagLike(g, TagParts(form.tag_keyword)[k])

\* C7: with an empty tag phrase the games shown are those the name filter alone
\* decides, and a whitespace-only phrase gives search_games the same lists; with a
\* non-empty phrase that has no sub-phrase, or whose sub-phrases match no game, the
\* result is the empty list.
C7_TagPhraseFilter ==
  SearchRan =>
    /\ form.tag_keyword = <<>> =>
         /\ AppIds(results) = ShownByNameAlone
         /\ results \in search_games(form.name_keyword, <<" ", " ">>, ReqMin, ReqMax)
    /\ TagPhraseMatchesNothing => results = <<>>

\* A phrase of commas only empties a search that the name filter alone would fill.
C7_Witness ==
  /\ SearchRan
  /\ form.tag_keyword = T_commas
  /\ TagParts(form.tag_keyword) = <<>>
  /\ ShownByNameAlone # {}
  /\ results = <<>>

---------------------------------------------------------------------------
(* C8 *)

SubPhrases == {T_Act, T_rpg, <<"z">>}

TwoPhrases(A, B) == A \o <<",", " ">> \o B

\* The sets of games search_games returns, over the delivery orders.
GameSets(name_keyword, tag_keyword, min_price_twd, max_price_twd) ==
  {AppIds(r) : r \in search_games(name_keyword, tag_keyword, min_price_twd, max_price_twd)}

\* C8: the set of games returned for the tag phrase "A, B" is the union of the sets
\* returned for "A" alone and for "B" alone, under the same name keyword and price
\* range: for the search index has rendered, and for every pair of sub-phrases on
\* the store of every state.
C8_TagUnion ==
  /\ SearchRan =>
       \A A, B \in SubPhrases :
         form.tag_keyword = TwoPhrases(A, B) =>
           \A a \in GameSets(form.name_keyword, A, ReqMin, ReqMax),
              b \in GameSets(form.name_keyword, B, ReqMin, ReqMax) :
             AppIds(results) = a \cup b
  /\ pc = "idle" =>
       \A A, B \in SubPhrases, name \in NameInputs :
         \A ab \in GameSets(name, TwoPhrases(A, B), 0, None),
            a \in GameSets(name, A, 0, None),
            b \in GameSets(name, B, 0, None) :
           ab = a \cup b

\* The search for "Act, rpg" shows two games, one tagged Action only and one tagged
\* RPG only.
C8_Witness ==
  /\ SearchRan
  /\ form.tag_keyword = T_Act_rpg
  /\ \E g, h \in AppIds(results) :
       /\ HasTagLike(g, T_Act) /\ ~HasTagLike(g, T_rpg)
       /\ HasTagLike(h, T_rpg) /\ ~HasTagLike(h, T_Act)

---------------------------------------------------------------------------
(* C9 *)

\* C9: in the rendered list the canonical prices of adjacent rows do not decrease,
\* and where they are equal the lower-cased titles do not decrease.
C9_SortedByPriceThenTitle ==
  SearchRan =>
    \A k \in 1..(Len(results) - 1) :
      LET a == results[k]
          b == results[k + 1]
      IN /\ CanonicalOf(a.appid) <= CanonicalOf(b.appid)
         /\ CanonicalOf(a.appid) = CanonicalOf(b.appid)
              => ~StrLess(Lower(b.title), Lower(a.title))

\* Two rows of equal canonical price whose titles are ordered one way as written and
\* the other way in lower case.
C9_Witness ==
  /\ SearchRan
  /\ Len(results) = 2
  /\ CanonicalOf(results[1].appid) = CanonicalOf(results[2].appid)
  /\ StrLess(Lower(results[1].title), Lower(results[2].title))
  /\ StrLess(results[2].title, results[1].title)

---------------------------------------------------------------------------
(* C10 *)

\* C10: of the games that pass the name and tag filters and are not excluded by the
\* price normalizer, exactly those are shown whose canonical price c has min <= c
\* and, when a maximum is given, c <= max.
C10_InclusiveRange ==
  SearchRan =>
    \A g \in DOMAIN Game :
      PassesFilters(g) /\ NotExcluded(g) =>
        (RowsFor(g) # {} <=> WithinBounds(CanonicalOf(g)))

\* A game whose canonical price equals the minimum and one whose canonical price
\* equals the maximum are both shown.
C10_Witness ==
  /\ SearchRan
  /\ ~IsNone(ReqMax)
  /\ \E g, h \in AppIds(results) :
       CanonicalOf(g) = ReqMin /\ CanonicalOf(h) = Val(ReqMax) /\ ReqMin < Val(ReqMax)

---------------------------------------------------------------------------
(* C11 *)

\* The ingestion run is over.
RunOver == main_pc = "closed"

\* The fetches of app id g that succeeded, by their place in call order.
OkFetches(g) == {k \in 1..Len(fetched[g]) : ~IsNone(fetched[g][k])}

\* The metadata of the first region whose fetch succeeded for g.
FirstOkData(g) == Val(fetched[g][CHOOSE k \in OkFetches(g) : \A j \in OkFetches(g) : k <= j])

\* The Game row that carries a metadata.
GameRowOf(data) == [MainTitle |-> MainTitleOf(NameOf(data)), IsFree |-> IsFreeOf(data)]

\* Every PriceRecord row refers to a GameID that has a Game row.
PricesReferToGames == \A i \in 1..Len(PriceRecord) : PriceRecord[i].GameID \in DOMAIN Game

\* Each Game row (one per app id: GameID is the key of the table) carries the
\* metadata of the first region whose fetch succeeded for its app id.
GamesCarryFirstOk ==
  \A g \in DOMAIN Game :
     /\ g \in DOMAIN fetched
     /\ OkFetches(g) # {}
     /\ Game[g] = GameRowOf(FirstOkData(g))

\* C11: after an ingestion run of main started on an empty store, whatever the
\* fetches returned, every PriceRecord row written refers to a GameID for which a
\* Game row exists, and there is at most one Game row per app id, carrying the
\* metadata of the first region whose fetch succeeded.
C11_PricesBelongToGames ==
  RunOver => PricesReferToGames /\ GamesCarryFirstOk
====
